---- MODULE Spec2Model ----
(***************************************************************************)
(* A model of the asynchronous scanning engine of ssdtree.py:              *)
(*   - DirectoryLoader   (lazy, batched listing of one directory),         *)
(*   - FolderSizeWorker  (size aggregation of one directory),              *)
(*   - FileTreeWidget    (the tree and its registry of running loaders),   *)
(*   - MainWindow        (the aggregation request, its cancellation and    *)
(*                        the chart).                                      *)
(* The GUI thread runs one handler at a time.  A handler is a sequence of  *)
(* steps (mtodo); the only places where the GUI thread can be overtaken by *)
(* a worker thread are between these steps, and it blocks in the two wait  *)
(* steps (QThread.wait).  Signals emitted by a worker thread towards the   *)
(* GUI thread are queued connections: they are posted to the GUI thread's  *)
(* event queue (mq) and handled in posting order when no handler runs.     *)
(***************************************************************************)
EXTENDS Integers, Sequences, FiniteSets, TLC

\* ---- bounds of the model ----
MaxOpens == 2      \* open_folder calls
MaxReq == 2        \* aggregation requests (values of current_worker_id)
MaxLoads == 2      \* DirectoryLoader instances ever created
BatchSize == 2     \* DirectoryLoader.batch_size of the model's loaders
MaxItems == 3      \* DirectoryLoader.max_items of the model's loaders

\* ---- the file system the model scans ----
\* /a holds the file f1 (2 bytes), the directory b and the empty directory e;
\* b holds the file f2 (1 byte).  A second directory, c, holds f1, the empty file F3, f2 and the
\* directory d (one entry more than the cap MaxItems), whose subtree is d
\* itself (files worth 1 byte) and one subdirectory (files worth 2 bytes).
\* Listing is the order in which os.scandir yields.
Names == {"a", "b", "c", "d", "e", "f1", "f2", "F3"}

RootPath == "a"

IsDir(p) == p \in {"a", "b", "c", "d", "e"}

Listing(p) ==
  CASE p = "a" -> <<"f1", "b", "e">>
    [] p = "b" -> <<"f2">>
    [] p = "c" -> <<"f1", "F3", "f2", "d">>
    [] OTHER -> <<>>

FileSize(p) ==
  CASE p = "f1" -> 2
    [] p = "f2" -> 1
    [] OTHER -> 0

\* os.walk(p): one step per directory of the subtree, each step worth the sum
\* of the sizes of the files directly in that directory.
WalkSums(p) ==
  CASE p = "b" -> <<1>>
    [] p = "d" -> <<1, 2>>
    [] p = "e" -> <<0>>
    [] OTHER -> <<>>

\* str.lower() on the model's names, and the rank of a lowercased name in
\* lexicographic order (the text of the placeholder child, in Cyrillic, comes
\* after every name of the model).
Lower(n) == IF n = "F3" THEN "f3" ELSE n

NameRank(n) ==
  CASE Lower(n) = "a" -> 1
    [] Lower(n) = "b" -> 2
    [] Lower(n) = "c" -> 3
    [] Lower(n) = "d" -> 4
    [] Lower(n) = "e" -> 5
    [] Lower(n) = "f1" -> 6
    [] Lower(n) = "f2" -> 7
    [] Lower(n) = "f3" -> 8
    [] OTHER -> 9

ReqIds == 1..MaxReq
LoadIds == 1..MaxLoads

VARIABLES
  mtodo,        \* the steps left of the handler the GUI thread is running
  mq,           \* the GUI thread's event queue (queued signal deliveries)
  closed,       \* the window was closed
  gen,          \* number of populate() calls: items of older trees are deleted
  items,        \* the tree's items, by path: exists, _is_loading, _is_loaded, children
  active,       \* _active_threads / _active_workers: item id -> loader
  ld,           \* the DirectoryLoader workers and their threads
  nLoads,       \* number of loaders created so far
  agg,          \* the FolderSizeWorker workers and their threads
  current_worker_id,
  worker,       \* MainWindow.worker (0 is None)
  thread,       \* MainWindow.thread (0 is None)
  selected,     \* the path of the selected tree item ("" is none)
  showing_file_info,
  chart,        \* the chart: the request whose mapping it shows, the mapping, the title
  progress_bar  \* value and visibility of the progress bar

vars == <<mtodo, mq, closed, gen, items, active, ld, nLoads, agg,
          current_worker_id, worker, thread, selected, showing_file_info, chart,
          progress_bar>>

treeVars == <<gen, items, active, ld, nLoads>>
aggVars == <<agg, current_worker_id, worker, thread>>
viewVars == <<selected, showing_file_info, chart, progress_bar>>

\* ---- small helpers ----
EmptyMap == <<>>

Op(o, x) == [op |-> o, x |-> x]

Ev(k, t, d) == [k |-> k, t |-> t, d |-> d]

\* id(item): the items of one tree are told apart by their path, the items of
\* different trees by the tree's generation.
Key(g, p) == [g |-> g, p |-> p]

NoItem == [exists |-> FALSE, loading |-> FALSE, loaded |-> FALSE, children |-> <<>>]

NoLoader ==
  [st |-> "none", key |-> Key(0, RootPath), intr |-> FALSE, quit |-> FALSE,
   conn |-> FALSE, i |-> 0, count |-> 0, batch |-> <<>>, seen |-> <<>>,
   skipped |-> <<>>, nostamp |-> <<>>, gone |-> FALSE]

NoAgg ==
  [st |-> "none", path |-> RootPath, intr |-> FALSE, quit |-> FALSE, idx |-> 0,
   widx |-> 0, acc |-> 0, data |-> EmptyMap, obs |-> FALSE]

NoChart == [from |-> 0, data |-> EmptyMap, title |-> ""]

Init ==
  /\ mtodo = <<>>
  /\ mq = <<>>
  /\ closed = FALSE
  /\ gen = 0
  /\ items = [p \in Names |-> NoItem]
  /\ active = <<>>
  /\ ld = [t \in LoadIds |-> NoLoader]
  /\ nLoads = 0
  /\ agg = [w \in ReqIds |-> NoAgg]
  /\ current_worker_id = 0
  /\ worker = 0
  /\ thread = 0
  /\ selected = ""
  /\ showing_file_info = FALSE
  /\ chart = NoChart
  /\ progress_bar = [value |-> 0, visible |-> FALSE]

\* =========================================================================
\* DirectoryLoader (the worker object and the QThread it was moved to)
\* =========================================================================

\* The batch sort key (not is_dir, name.lower()): directories first, then name.
LoaderLess(a, b) ==
  \/ IsDir(a) /\ ~IsDir(b)
  \/ IsDir(a) = IsDir(b) /\ NameRank(a) < NameRank(b)

RECURSIVE Insert(_, _)
Insert(x, s) ==
  IF s = <<>> THEN <<x>>
  ELSE IF LoaderLess(x, Head(s)) THEN <<x>> \o s
  ELSE <<Head(s)>> \o Insert(x, Tail(s))

\* list.sort(key=...) of a batch (stable).
RECURSIVE SortBatch(_)
SortBatch(s) ==
  IF s = <<>> THEN <<>>
  ELSE Insert(s[Len(s)], SortBatch(SubSeq(s, 1, Len(s) - 1)))

\* The item a loader targets is in the current tree.
Alive(key) == key.g = gen /\ items[key.p].exists

\* What parent_item_ref() can return: the item while it is in the tree; once
\* the tree was cleared the weak reference is dead unless something (a local
\* of the running frame, the arguments of a queued signal) still holds the
\* wrapper, which the model leaves open; a reference found dead stays dead.
WeakrefOutcomes(l) ==
  IF Alive(l.key) THEN {TRUE} ELSE IF l.gone THEN {FALSE} ELSE BOOLEAN

\* A signal of a loader is posted to the GUI thread as long as the signal is
\* still connected.
LdPost(l, evs) == IF l.conn THEN mq \o evs ELSE mq

\* load_directory has returned: its locals (count, batch, the iterator) are
\* gone.  seen, the entries the run appended to its batches (line 76), and
\* skipped, the entries it could not read (line 80), with nostamp, those among
\* them that failed at the timestamp, are what the properties of a run
\* compare its batches with; they stay until the thread ends.
Returned(l) == [l EXCEPT !.st = "ret", !.i = 0, !.count = 0, !.batch = <<>>]

\* DirectoryLoader.interrupt (lines 111-114).
Interrupted(l) == [l EXCEPT !.intr = TRUE]

\* load_directory, lines 51-54: the check of the flag before the scan starts.
LdBegin(t) ==
  /\ ld[t].st = "ready"
  /\ ld' = [ld EXCEPT ![t] = IF ld[t].intr THEN Returned(@) ELSE [@ EXCEPT !.st = "open"]]
  /\ UNCHANGED <<mtodo, mq, closed, gen, items, active, nLoads, aggVars, viewVars>>

\* lines 55-60: the path is a directory and os.scandir opens it ...
LdOpen(t) ==
  /\ ld[t].st = "open"
  /\ ld' = [ld EXCEPT ![t].st = "scan", ![t].i = 1]
  /\ UNCHANGED <<mtodo, mq, closed, gen, items, active, nLoads, aggVars, viewVars>>

\* ... or it is not, or listing it raises (lines 55-57, 99-101), now or while
\* the entries are iterated: the error signal, and the run is over.
LdScanError(t) ==
  /\ ld[t].st \in {"open", "scan"}
  /\ ld[t].st = "scan" => ld[t].i <= Len(Listing(ld[t].key.p))
  /\ ld' = [ld EXCEPT ![t] = Returned(@)]
  /\ mq' = LdPost(ld[t], <<Ev("ldError", t, <<>>)>>)
  /\ UNCHANGED <<mtodo, closed, gen, items, active, nLoads, aggVars, viewVars>>

\* The cap never stops the scan.
CapNever(l) == FALSE

\* The cap on the entries of one run (line 66).
CapReached(l) == l.count >= MaxItems

\* lines 61-67: the head of the loop: the next entry, the check of the flag
\* under the mutex, the cap.
LdScan(t) ==
  /\ ld[t].st = "scan"
  /\ ld' = [ld EXCEPT ![t] =
              IF ld[t].i > Len(Listing(ld[t].key.p)) THEN [@ EXCEPT !.st = "tail"]
              ELSE IF ld[t].intr THEN Returned(@)
              ELSE IF CapReached(ld[t]) THEN [@ EXCEPT !.st = "tail"]
              ELSE [@ EXCEPT !.st = "entry"]]
  /\ UNCHANGED <<mtodo, mq, closed, gen, items, active, nLoads, aggVars, viewVars>>

\* A batch is let grow one entry beyond batch_size.
BatchFullLate(b) == Len(b) > BatchSize

\* The batch boundary (line 82).
BatchFull(b) == Len(b) >= BatchSize

\* lines 68-87: one entry is appended to the batch; a full batch is sorted,
\* emitted (when the target item is still there) and cleared.
LdEntry(t) ==
  /\ ld[t].st = "entry"
  /\ LET l == ld[t]
         b == Append(l.batch, Listing(l.key.p)[l.i])
         full == BatchFull(b)
     IN \E live \in WeakrefOutcomes(l) :
          /\ ld' = [ld EXCEPT ![t].st = "scan",
                              ![t].i = l.i + 1,
                              ![t].count = l.count + 1,
                              ![t].batch = IF full THEN <<>> ELSE b,
                              ![t].seen = Append(l.seen, Listing(l.key.p)[l.i]),
                              ![t].gone = IF full THEN ~live ELSE l.gone]
          /\ mq' = IF full /\ live
                   THEN LdPost(l, <<Ev("items", t, SortBatch(b))>>)
                   ELSE mq
  /\ UNCHANGED <<mtodo, closed, gen, items, active, nLoads, aggVars, viewVars>>

\* A failure on one entry that throws the buffered entries away.
LdEntrySkipDropsBatch(t) ==
  /\ ld[t].st = "entry"
  /\ ld' = [ld EXCEPT ![t].st = "scan", ![t].i = ld[t].i + 1, ![t].batch = <<>>,
                      ![t].skipped = Append(@, Listing(ld[t].key.p)[ld[t].i])]
  /\ UNCHANGED <<mtodo, mq, closed, gen, items, active, nLoads, aggVars, viewVars>>

\* lines 79-81: the entry cannot be read (stat fails, the file is gone): it is
\* skipped, and the batch is not looked at.
LdEntrySkip(t) ==
  /\ ld[t].st = "entry"
  /\ ld' = [ld EXCEPT ![t].st = "scan", ![t].i = ld[t].i + 1,
                      ![t].skipped = Append(@, Listing(ld[t].key.p)[ld[t].i])]
  /\ UNCHANGED <<mtodo, mq, closed, gen, items, active, nLoads, aggVars, viewVars>>

\* line 75: the kind and the size of a directory entry were obtained (is_dir
\* needs no stat, the size of a directory is 0) and entry.stat() for the
\* creation time raises.  The statement is inside the try of line 68: the
\* handler of lines 79-81 skips the entry.
LdStampFails(t) ==
  /\ ld[t].st = "entry"
  /\ IsDir(Listing(ld[t].key.p)[ld[t].i])
  /\ ld' = [ld EXCEPT ![t].st = "scan", ![t].i = ld[t].i + 1,
                      ![t].skipped = Append(@, Listing(ld[t].key.p)[ld[t].i]),
                      ![t].nostamp = Append(@, Listing(ld[t].key.p)[ld[t].i])]
  /\ UNCHANGED <<mtodo, mq, closed, gen, items, active, nLoads, aggVars, viewVars>>

\* lines 88-92: the rest of the buffer after the loop.
LdTail(t) ==
  /\ ld[t].st = "tail"
  /\ \E live \in WeakrefOutcomes(ld[t]) :
       /\ ld' = [ld EXCEPT ![t].st = "finish",
                           ![t].gone = IF ld[t].batch # <<>> THEN ~live ELSE @]
       /\ mq' = IF ld[t].batch # <<>> /\ live
                THEN LdPost(ld[t], <<Ev("items", t, SortBatch(ld[t].batch))>>)
                ELSE mq
  /\ UNCHANGED <<mtodo, closed, gen, items, active, nLoads, aggVars, viewVars>>

\* The test of line 94 inverted.
MayFinishInverted(l) == l.intr

\* The test that lets the completion signal out (line 94).
MayFinish(l) == ~l.intr

\* lines 93-98: under the mutex, the completion signal unless interrupted.
\* finished is connected to on_loading_finished and to the lambda that
\* cleans the loader's thread up (lines 253, 255), in this order.
LdFinish(t) ==
  /\ ld[t].st = "finish"
  /\ \E live \in WeakrefOutcomes(ld[t]) :
       /\ ld' = [ld EXCEPT ![t] = [Returned(@) EXCEPT !.gone = IF MayFinish(ld[t]) THEN ~live ELSE @]]
       /\ mq' = IF MayFinish(ld[t]) /\ live
                THEN LdPost(ld[t], <<Ev("ldFinished", t, <<>>), Ev("ldCleanup", t, <<>>)>>)
                ELSE mq
  /\ UNCHANGED <<mtodo, closed, gen, items, active, nLoads, aggVars, viewVars>>

\* The thread's event loop ends once load_directory has returned and quit()
\* was called on the thread.  The worker and the thread, both handed to
\* deleteLater (lines 256, 312, 316), are not used again: only the thread's
\* having finished, and the item the loader was for, are kept.
LdExit(t) ==
  /\ ld[t].st = "ret"
  /\ ld[t].quit
  /\ ld' = [ld EXCEPT ![t] = [NoLoader EXCEPT !.st = "fin", !.key = ld[t].key]]
  /\ UNCHANGED <<mtodo, mq, closed, gen, items, active, nLoads, aggVars, viewVars>>

\* =========================================================================
\* FolderSizeWorker (the worker object and the QThread it was moved to)
\* =========================================================================

\* process has returned: its locals (data, entries, idx) are gone.  The
\* signals of a FolderSizeWorker are never disconnected, so each is posted.
AggReturned(a) ==
  [a EXCEPT !.st = "ret", !.idx = 0, !.widx = 0, !.acc = 0, !.data = EmptyMap]

\* The share still to do instead of the share done.
PercentLeft(done, total) == ((total - done) * 100) \div total

\* int((idx+1)/total*100), idx counted from 0; here done counts from 1.  For
\* the totals of the model (1 to 4) the floating-point quotient truncates to
\* the integer quotient.
Percent(done, total) == (done * 100) \div total

\* FolderSizeWorker.interrupt (lines 395-398).
AggInterrupted(a) == [a EXCEPT !.intr = TRUE]

\* process, line 354: the directory is listed ...
AggBegin(w) ==
  /\ agg[w].st = "ready"
  /\ agg' = [agg EXCEPT ![w].st = IF Listing(agg[w].path) = <<>> THEN "end" ELSE "chk",
                        ![w].idx = 1]
  /\ UNCHANGED <<mtodo, mq, closed, treeVars, current_worker_id, worker, thread, viewVars>>

\* A listing failure that is not reported.
AggListErrorSilent(w) ==
  /\ agg[w].st = "ready"
  /\ agg' = [agg EXCEPT ![w] = AggReturned(@)]
  /\ UNCHANGED <<mtodo, mq, closed, treeVars, current_worker_id, worker, thread, viewVars>>

\* ... or listing it raises (lines 374-376): the error signal.
AggListError(w) ==
  /\ agg[w].st = "ready"
  /\ agg' = [agg EXCEPT ![w] = AggReturned(@)]
  /\ mq' = Append(mq, Ev("aggError", w, 0))
  /\ UNCHANGED <<mtodo, closed, treeVars, current_worker_id, worker, thread, viewVars>>

\* lines 356-365: the check of the flag before an immediate child; a file's
\* size is taken, a directory is walked.
AggCheck(w) ==
  /\ agg[w].st = "chk"
  /\ LET a == agg[w]
         e == Listing(a.path)[a.idx]
     IN agg' = [agg EXCEPT ![w] =
                  IF a.intr THEN [AggReturned(a) EXCEPT !.obs = TRUE]
                  ELSE IF IsDir(e) THEN [a EXCEPT !.st = "walk", !.widx = 1, !.acc = 0]
                  ELSE [a EXCEPT !.st = "proc", !.acc = FileSize(e)]]
  /\ UNCHANGED <<mtodo, mq, closed, treeVars, current_worker_id, worker, thread, viewVars>>

\* What get_folder_size does once it has seen the flag set (lines 382-384): it
\* returns 0 to process, which goes on with that size.
WalkInterrupted(a) == [a EXCEPT !.st = "proc", !.acc = 0, !.obs = TRUE]

\* get_folder_size, lines 381-390: one step of os.walk: the check of the flag,
\* then the files of that directory are added.
AggWalk(w) ==
  /\ agg[w].st = "walk"
  /\ LET a == agg[w]
         sums == WalkSums(Listing(a.path)[a.idx])
     IN agg' = [agg EXCEPT ![w] =
                  IF a.widx > Len(sums) THEN [a EXCEPT !.st = "proc"]
                  ELSE IF a.intr THEN WalkInterrupted(a)
                  ELSE [a EXCEPT !.acc = a.acc + sums[a.widx], !.widx = a.widx + 1]]
  /\ UNCHANGED <<mtodo, mq, closed, treeVars, current_worker_id, worker, thread, viewVars>>

\* Every size enters the mapping.
PositiveOrZero(size) == TRUE

\* The test of line 366 on a child's size.
Positive(size) == size > 0

\* lines 366-368: a positive size enters the mapping, and the progress signal.
AggProc(w) ==
  /\ agg[w].st = "proc"
  /\ LET a == agg[w]
         lst == Listing(a.path)
         e == lst[a.idx]
         pct == Percent(a.idx, Len(lst))
     IN /\ agg' = [agg EXCEPT ![w].st = IF a.idx = Len(lst) THEN "end" ELSE "chk",
                              ![w].idx = a.idx + 1,
                              ![w].acc = 0,
                              ![w].widx = 0,
                              ![w].data = IF Positive(a.acc) THEN (e :> a.acc) @@ @ ELSE @]
        /\ mq' = Append(mq, Ev("progress", w, pct))
  /\ UNCHANGED <<mtodo, closed, treeVars, current_worker_id, worker, thread, viewVars>>

\* lines 369-371: the child cannot be read: no size, no progress signal.
AggChildError(w) ==
  /\ agg[w].st = "proc"
  /\ ~IsDir(Listing(agg[w].path)[agg[w].idx])
  /\ agg' = [agg EXCEPT ![w].st = IF agg[w].idx = Len(Listing(agg[w].path)) THEN "end" ELSE "chk",
                        ![w].idx = agg[w].idx + 1,
                        ![w].acc = 0]
  /\ UNCHANGED <<mtodo, mq, closed, treeVars, current_worker_id, worker, thread, viewVars>>

\* line 372: the final mapping.  finished is connected to the lambda calling
\* on_worker_finished(data, worker_id) and to thread.quit (lines 701, 704),
\* in this order.
AggEnd(w) ==
  /\ agg[w].st = "end"
  /\ agg' = [agg EXCEPT ![w] = AggReturned(@)]
  /\ mq' = mq \o <<Ev("aggFinished", w, agg[w].data), Ev("quit", w, 0)>>
  /\ UNCHANGED <<mtodo, closed, treeVars, current_worker_id, worker, thread, viewVars>>

\* The thread's event loop ends once process has returned and quit() was
\* called on the thread; thread.finished is connected to
\* clear_thread_worker_refs (line 707), a slot of the GUI thread.  The worker
\* and the thread (deleteLater, lines 705-706) are not used again: only the
\* thread's having finished, and whether the run had seen its flag set, are
\* kept.
AggExit(w) ==
  /\ agg[w].st = "ret"
  /\ agg[w].quit
  /\ agg' = [agg EXCEPT ![w] = [NoAgg EXCEPT !.st = "fin", !.obs = agg[w].obs]]
  /\ mq' = Append(mq, Ev("clearRefs", w, 0))
  /\ UNCHANGED <<mtodo, closed, treeVars, current_worker_id, worker, thread, viewVars>>

\* =========================================================================
\* The GUI thread: the steps of a running handler
\* =========================================================================

Idle == mtodo = <<>> /\ ~closed

Doing(o) == mtodo # <<>> /\ Head(mtodo).op = o

\* _cancel_previous_operations, lines 628-630: the current aggregation is
\* interrupted and its thread told to quit.
CancelAgg ==
  /\ Doing("cancelAgg")
  /\ IF worker # 0 /\ thread # 0
     THEN /\ agg' = [agg EXCEPT ![worker] = AggInterrupted(@), ![thread].quit = TRUE]
          /\ mtodo' = <<Op("waitAgg", thread)>> \o Tail(mtodo)
     ELSE /\ agg' = agg
          /\ mtodo' = Tail(mtodo)
  /\ UNCHANGED <<mq, closed, treeVars, current_worker_id, worker, thread, viewVars>>

\* lines 631-633: thread.wait(1000) returns because the thread has finished ...
WaitAggDone ==
  /\ Doing("waitAgg")
  /\ agg[Head(mtodo).x].st = "fin"
  /\ worker' = 0
  /\ thread' = 0
  /\ mtodo' = Tail(mtodo)
  /\ UNCHANGED <<mq, closed, treeVars, agg, current_worker_id, viewVars>>

\* ... or because the second is over while the worker is still at work.
WaitAggTimeout ==
  /\ Doing("waitAgg")
  /\ agg[Head(mtodo).x].st # "fin"
  /\ worker' = 0
  /\ thread' = 0
  /\ mtodo' = Tail(mtodo)
  /\ UNCHANGED <<mq, closed, treeVars, agg, current_worker_id, viewVars>>

\* The registry, a dict in insertion order: is the id tracked, and by which
\* loader.
Tracked(key) == \E n \in 1..Len(active) : active[n].key = key

LoaderOf(key) == active[CHOOSE n \in 1..Len(active) : active[n].key = key].t

KeyIsNot(key, e) == e.key # key

Popped(key) == SelectSeq(active, LAMBDA e : KeyIsNot(key, e))

\* _cleanup_threads, lines 320-323: the tracked item ids are listed, then each
\* is cleaned up in turn.
CleanupThreads ==
  /\ Doing("cleanupAll")
  /\ mtodo' = [n \in 1..Len(active) |-> Op("cleanup", active[n].key)] \o Tail(mtodo)
  /\ UNCHANGED <<mq, closed, treeVars, aggVars, viewVars>>

\* _cleanup_thread, lines 295-299: the entry leaves the registry and the worker
\* is interrupted.
CleanupThread ==
  /\ Doing("cleanup")
  /\ LET key == Head(mtodo).x
     IN IF Tracked(key)
        THEN /\ active' = Popped(key)
             /\ ld' = [ld EXCEPT ![LoaderOf(key)] = Interrupted(@)]
             /\ mtodo' = <<Op("release", LoaderOf(key))>> \o Tail(mtodo)
        ELSE /\ UNCHANGED <<active, ld>>
             /\ mtodo' = Tail(mtodo)
  /\ UNCHANGED <<mq, closed, gen, items, nLoads, aggVars, viewVars>>

\* lines 300-314: the worker's signals are disconnected and its thread is told
\* to quit.
ReleaseWorker ==
  /\ Doing("release")
  /\ ld' = [ld EXCEPT ![Head(mtodo).x].conn = FALSE, ![Head(mtodo).x].quit = TRUE]
  /\ mtodo' = <<Op("waitLd", Head(mtodo).x)>> \o Tail(mtodo)
  /\ UNCHANGED <<mq, closed, gen, items, active, nLoads, aggVars, viewVars>>

\* A wait that does not wait.
ThreadWaitOverAtOnce(l) == TRUE

\* What thread.wait() of line 315 waits for.
ThreadWaitOver(l) == l.st = "fin"

\* lines 315-316: thread.wait() returns when the thread has finished.
WaitLoader ==
  /\ Doing("waitLd")
  /\ ThreadWaitOver(ld[Head(mtodo).x])
  /\ mtodo' = Tail(mtodo)
  /\ UNCHANGED <<mq, closed, treeVars, aggVars, viewVars>>

\* open_folder lines 618-619 and populate line 218: the tree is cleared, all
\* its items are deleted.
ClearTree ==
  /\ Doing("clear")
  /\ gen' = gen + 1
  /\ items' = [p \in Names |-> NoItem]
  /\ selected' = ""
  /\ progress_bar' = [progress_bar EXCEPT !.visible = TRUE]
  /\ mtodo' = Tail(mtodo)
  /\ UNCHANGED <<mq, closed, active, ld, nLoads, aggVars, showing_file_info, chart>>

\* populate lines 220-226: the root item, and _load_directory_async for it,
\* which starts (line 240) by cleaning up what is tracked under the item's id.
NewRoot ==
  /\ Doing("newRoot")
  /\ items' = [items EXCEPT ![RootPath].exists = TRUE]
  /\ mtodo' = <<Op("cleanup", Key(gen, RootPath)), Op("load", Key(gen, RootPath))>>
                 \o Tail(mtodo)
  /\ UNCHANGED <<mq, closed, gen, active, ld, nLoads, aggVars, viewVars>>

\* The test left out: no target is ever taken to be loading.
IsLoadingNever(it) == FALSE

\* The test of _load_directory_async, line 241, and of on_item_expanded,
\* line 235, that refuses a target whose load is running.
IsLoading(it) == it.loading

\* _load_directory_async lines 241-257: unless the item is loading already, it
\* is marked loading and a loader with its own thread is created, registered
\* under the item's id, connected and started.
LoadDirectoryAsync ==
  /\ Doing("load")
  /\ LET key == Head(mtodo).x
         t == nLoads + 1
     IN IF IsLoading(items[key.p])
        THEN UNCHANGED <<items, active, ld, nLoads>>
        ELSE /\ items' = [items EXCEPT ![key.p].loading = TRUE]
             /\ active' = Append(active, [key |-> key, t |-> t])
             /\ ld' = [ld EXCEPT ![t] = [NoLoader EXCEPT !.st = "ready", !.key = key,
                                                         !.conn = TRUE]]
             /\ nLoads' = t
  /\ mtodo' = Tail(mtodo)
  /\ UNCHANGED <<mq, closed, gen, aggVars, viewVars>>

\* open_folder lines 621-624: the chart is emptied.
ChartReset ==
  /\ Doing("chartReset")
  /\ showing_file_info' = FALSE
  /\ chart' = NoChart
  /\ mtodo' = Tail(mtodo)
  /\ UNCHANGED <<mq, closed, treeVars, aggVars, selected, progress_bar>>

\* start_folder_size_worker lines 697-708: the new worker and its thread, for
\* the request id taken at line 695.
StartWorker ==
  /\ Doing("startAgg")
  /\ agg' = [agg EXCEPT ![current_worker_id] =
               [NoAgg EXCEPT !.st = "ready", !.path = Head(mtodo).x]]
  /\ worker' = current_worker_id
  /\ thread' = current_worker_id
  /\ mtodo' = Tail(mtodo)
  /\ UNCHANGED <<mq, closed, treeVars, current_worker_id, viewVars>>

\* closeEvent line 738: the window is closed, the event loop ends.
Closed ==
  /\ Doing("closed")
  /\ closed' = TRUE
  /\ mtodo' = Tail(mtodo)
  /\ UNCHANGED <<mq, treeVars, aggVars, viewVars>>

\* =========================================================================
\* The GUI thread: what the user does
\* =========================================================================

\* MainWindow.open_folder with a folder chosen (lines 613-625), calling
\* _cancel_previous_operations and FileTreeWidget.populate (lines 217-227).
OpenFolder ==
  /\ Idle
  /\ gen < MaxOpens
  /\ nLoads < MaxLoads
  /\ mtodo' = <<Op("cancelAgg", 0), Op("cleanupAll", 0), Op("clear", 0),
                Op("cleanupAll", 0), Op("newRoot", 0), Op("chartReset", 0)>>
  /\ UNCHANGED <<mq, closed, treeVars, aggVars, viewVars>>

\* The test of on_item_expanded, lines 233-236, that lets a load start.
MayExpand(p) == IsDir(p) /\ ~(items[p].loaded \/ IsLoading(items[p]))

\* FileTreeWidget.on_item_expanded (lines 229-237): the user expands the item
\* of path p.
OnItemExpanded(p) ==
  /\ Idle
  /\ items[p].exists
  /\ nLoads < MaxLoads
  /\ mtodo' = IF MayExpand(p)
              THEN <<Op("cleanup", Key(gen, p)), Op("load", Key(gen, p))>>
              ELSE <<>>
  /\ UNCHANGED <<mq, closed, treeVars, aggVars, viewVars>>

\* The user selects the item of a directory: on_selection_changed (lines
\* 325-332), on_tree_selection_changed (lines 636-642) and
\* start_folder_size_worker up to its line 696.
SelectDirectory(p) ==
  /\ Idle
  /\ items[p].exists
  /\ p # selected
  /\ IsDir(p)
  /\ current_worker_id < MaxReq
  /\ selected' = p
  /\ showing_file_info' = FALSE
  /\ chart' = IF showing_file_info THEN [chart EXCEPT !.from = 0, !.data = EmptyMap]
              ELSE chart
  /\ current_worker_id' = current_worker_id + 1
  /\ mtodo' = <<Op("cancelAgg", 0), Op("cleanupAll", 0), Op("startAgg", p)>>
  /\ UNCHANGED <<mq, closed, treeVars, agg, worker, thread, progress_bar>>

\* The user selects the item of a file: on_tree_selection_changed lines
\* 643-646 and show_file_properties (lines 648-673).
SelectFile(p) ==
  /\ Idle
  /\ items[p].exists
  /\ p # selected
  /\ ~IsDir(p)
  /\ selected' = p
  /\ showing_file_info' = TRUE
  /\ chart' = [from |-> 0, data |-> EmptyMap, title |-> "props"]
  /\ UNCHANGED <<mtodo, mq, closed, treeVars, aggVars, progress_bar>>

\* MainWindow.closeEvent (lines 735-738).
CloseEvent ==
  /\ Idle
  /\ mtodo' = <<Op("cancelAgg", 0), Op("cleanupAll", 0), Op("cleanupAll", 0),
                Op("closed", 0)>>
  /\ UNCHANGED <<mq, closed, treeVars, aggVars, viewVars>>

\* =========================================================================
\* The GUI thread: the slots run for the queued signals
\* =========================================================================

Handling(k) == Idle /\ mq # <<>> /\ Head(mq).k = k

\* SortableTreeWidgetItem.__lt__ in the tree's sort mode "type" (lines
\* 151-160): directories first, then the extension (the model's names have
\* none), then the name.  An item counts as a directory when its size column
\* is empty, which is also true of the placeholder.
SizeTextEmpty(n) == IsDir(n) \/ n = "placeholder"

ItemLess(a, b) ==
  IF SizeTextEmpty(a) # SizeTextEmpty(b) THEN SizeTextEmpty(a)
  ELSE NameRank(a) < NameRank(b)

RECURSIVE InsertItem(_, _)
InsertItem(x, s) ==
  IF s = <<>> THEN <<x>>
  ELSE IF ItemLess(x, Head(s)) THEN <<x>> \o s
  ELSE <<Head(s)>> \o InsertItem(x, Tail(s))

RECURSIVE SortChildren(_)
SortChildren(s) ==
  IF s = <<>> THEN <<>>
  ELSE InsertItem(s[Len(s)], SortChildren(SubSeq(s, 1, Len(s) - 1)))

InBatch(b, p) == \E n \in 1..Len(b) : b[n] = p

\* FileTreeWidget.on_items_loaded (lines 260-281): one child item per entry
\* of the batch, a placeholder child under a directory that has entries, and
\* the children sorted.
OnItemsLoaded ==
  /\ Handling("items")
  /\ LET key == ld[Head(mq).t].key
         b == Head(mq).d
     IN items' = IF Alive(key)
                 THEN [p \in Names |->
                         IF p = key.p
                         THEN [items[p] EXCEPT !.children = SortChildren(@ \o b)]
                         ELSE IF InBatch(b, p)
                         THEN [NoItem EXCEPT !.exists = TRUE,
                                             !.children = IF IsDir(p) /\ Listing(p) # <<>>
                                                          THEN <<"placeholder">>
                                                          ELSE <<>>]
                         ELSE items[p]]
                 ELSE items
  /\ mq' = Tail(mq)
  /\ UNCHANGED <<mtodo, closed, gen, active, ld, nLoads, aggVars, viewVars>>

\* FileTreeWidget.on_loading_finished (lines 283-288).
OnLoadingFinished ==
  /\ Handling("ldFinished")
  /\ LET key == ld[Head(mq).t].key
     IN items' = IF key.g = gen
                 THEN [items EXCEPT ![key.p].loading = FALSE, ![key.p].loaded = TRUE]
                 ELSE items
  /\ mq' = Tail(mq)
  /\ UNCHANGED <<mtodo, closed, gen, active, ld, nLoads, aggVars, viewVars>>

\* The lambda of line 255: _cleanup_thread(item_id).
OnFinishedCleanup ==
  /\ Handling("ldCleanup")
  /\ mtodo' = <<Op("cleanup", ld[Head(mq).t].key)>>
  /\ mq' = Tail(mq)
  /\ UNCHANGED <<closed, treeVars, aggVars, viewVars>>

\* FileTreeWidget.on_loading_error (lines 290-292): the message is logged.
OnLoadingError ==
  /\ Handling("ldError")
  /\ mq' = Tail(mq)
  /\ UNCHANGED <<mtodo, closed, treeVars, aggVars, viewVars>>

\* progress is connected to progress_bar.setValue (line 703).
OnProgress ==
  /\ Handling("progress")
  /\ progress_bar' = [progress_bar EXCEPT !.value = Head(mq).d]
  /\ mq' = Tail(mq)
  /\ UNCHANGED <<mtodo, closed, treeVars, aggVars, selected, showing_file_info, chart>>

\* The test left out: every result is let through.
IsCurrentAlways(worker_id) == TRUE

\* The test of on_worker_finished, line 712, that lets a result through.
IsCurrent(worker_id) == worker_id = current_worker_id

\* An empty mapping shown as an error.
TitleEmptyIsError(data, folder_name) ==
  IF data = EmptyMap THEN "err_size" ELSE folder_name

\* update_data, lines 428-431: the title of the chart: the text for an empty
\* folder when the mapping is empty, the folder's name otherwise.
TitleFor(data, folder_name) ==
  IF data = EmptyMap THEN "empty_folder" ELSE folder_name

\* MainWindow.on_worker_finished (lines 711-723) with update_data (lines
\* 426-450) and clear_thread_worker_refs.
OnWorkerFinished ==
  /\ Handling("aggFinished")
  /\ IF IsCurrent(Head(mq).t)
     THEN /\ progress_bar' = [progress_bar EXCEPT !.visible = FALSE]
          /\ chart' = IF worker # 0
                      THEN [from |-> Head(mq).t, data |-> Head(mq).d,
                            title |-> TitleFor(Head(mq).d, agg[worker].path)]
                      ELSE chart
          /\ worker' = 0
          /\ thread' = 0
     ELSE UNCHANGED <<progress_bar, chart, worker, thread>>
  /\ mq' = Tail(mq)
  /\ UNCHANGED <<mtodo, closed, treeVars, agg, current_worker_id, selected,
                 showing_file_info>>

\* MainWindow.on_worker_error (lines 725-729).
OnWorkerError ==
  /\ Handling("aggError")
  /\ chart' = [chart EXCEPT !.title = "err_size"]
  /\ progress_bar' = [progress_bar EXCEPT !.visible = FALSE]
  /\ mq' = Tail(mq)
  /\ UNCHANGED <<mtodo, closed, treeVars, aggVars, selected, showing_file_info>>

\* finished is connected to thread.quit (line 704), run by the GUI thread.
OnFinishedQuit ==
  /\ Handling("quit")
  /\ agg' = [agg EXCEPT ![Head(mq).t].quit = TRUE]
  /\ mq' = Tail(mq)
  /\ UNCHANGED <<mtodo, closed, treeVars, current_worker_id, worker, thread, viewVars>>

\* MainWindow.clear_thread_worker_refs (lines 731-733), run for the finished
\* signal of an aggregation's thread.
ClearThreadWorkerRefs ==
  /\ Handling("clearRefs")
  /\ worker' = 0
  /\ thread' = 0
  /\ mq' = Tail(mq)
  /\ UNCHANGED <<mtodo, closed, treeVars, agg, current_worker_id, viewVars>>

\* =========================================================================
\* The program
\* =========================================================================

LoaderStep ==
  \E t \in LoadIds :
    \/ LdBegin(t)
    \/ LdOpen(t)
    \/ LdScanError(t)
    \/ LdScan(t)
    \/ LdEntry(t)
    \/ LdEntrySkip(t)
    \/ LdStampFails(t)
    \/ LdTail(t)
    \/ LdFinish(t)
    \/ LdExit(t)

AggStep ==
  \E w \in ReqIds :
    \/ AggBegin(w)
    \/ AggListError(w)
    \/ AggCheck(w)
    \/ AggWalk(w)
    \/ AggProc(w)
    \/ AggChildError(w)
    \/ AggEnd(w)
    \/ AggExit(w)

HandlerStep ==
  \/ CancelAgg
  \/ WaitAggDone
  \/ WaitAggTimeout
  \/ CleanupThreads
  \/ CleanupThread
  \/ ReleaseWorker
  \/ WaitLoader
  \/ ClearTree
  \/ NewRoot
  \/ LoadDirectoryAsync
  \/ ChartReset
  \/ StartWorker
  \/ Closed

UserStep ==
  \/ OpenFolder
  \/ \E p \in Names : OnItemExpanded(p)
  \/ \E p \in Names : SelectDirectory(p)
  \/ \E p \in Names : SelectFile(p)
  \/ CloseEvent

SlotStep ==
  \/ OnItemsLoaded
  \/ OnLoadingFinished
  \/ OnFinishedCleanup
  \/ OnLoadingError
  \/ OnProgress
  \/ OnWorkerFinished
  \/ OnWorkerError
  \/ OnFinishedQuit
  \/ ClearThreadWorkerRefs

Next == LoaderStep \/ AggStep \/ HandlerStep \/ UserStep \/ SlotStep

\* The whole program, from the start of the application.
Spec == Init /\ [][Next]_vars

\* -------------------------------------------------------------------------
\* One DirectoryLoader run: the loader is constructed for the item of path p
\* (lines 38-45) and started; interrupt() is called at any moment, and the
\* target item can be deleted at any moment.
\* -------------------------------------------------------------------------
LoaderInit ==
  \E p \in {"a", "b", "c", "e"} :
    /\ mtodo = <<>>
    /\ mq = <<>>
    /\ closed = FALSE
    /\ gen = 1
    /\ items = [q \in Names |-> IF q = p THEN [NoItem EXCEPT !.exists = TRUE, !.loading = TRUE]
                                ELSE NoItem]
    /\ active = <<[key |-> Key(1, p), t |-> 1]>>
    /\ ld = [t \in LoadIds |-> IF t = 1 THEN [NoLoader EXCEPT !.st = "ready", !.key = Key(1, p),
                                                               !.conn = TRUE]
                               ELSE NoLoader]
    /\ nLoads = 1
    /\ agg = [w \in ReqIds |-> NoAgg]
    /\ current_worker_id = 0
    /\ worker = 0
    /\ thread = 0
    /\ selected = ""
    /\ showing_file_info = FALSE
    /\ chart = NoChart
    /\ progress_bar = [value |-> 0, visible |-> FALSE]

\* interrupt() called by whoever holds the loader.
Interrupt ==
  /\ ~ld[1].intr
  /\ ld' = [ld EXCEPT ![1] = Interrupted(@)]
  /\ UNCHANGED <<mtodo, mq, closed, gen, items, active, nLoads, aggVars, viewVars>>

\* The tree is cleared (populate line 218) while the loader runs.
ItemDeleted ==
  /\ gen = 1
  /\ gen' = 2
  /\ items' = [p \in Names |-> NoItem]
  /\ UNCHANGED <<mtodo, mq, closed, active, ld, nLoads, aggVars, viewVars>>

LoaderNext ==
  \/ LdBegin(1)
  \/ LdOpen(1)
  \/ LdScanError(1)
  \/ LdScan(1)
  \/ LdEntry(1)
  \/ LdEntrySkip(1)
  \/ LdStampFails(1)
  \/ LdTail(1)
  \/ LdFinish(1)
  \/ Interrupt
  \/ ItemDeleted

SpecLoader == LoaderInit /\ [][LoaderNext]_vars

\* -------------------------------------------------------------------------
\* One FolderSizeWorker run: the worker is constructed for path p (lines
\* 343-347) and started; interrupt() is called at any moment.
\* -------------------------------------------------------------------------
WorkerInit ==
  \E p \in {"a", "b", "c", "e"} :
    /\ mtodo = <<>>
    /\ mq = <<>>
    /\ closed = FALSE
    /\ gen = 0
    /\ items = [q \in Names |-> NoItem]
    /\ active = <<>>
    /\ ld = [t \in LoadIds |-> NoLoader]
    /\ nLoads = 0
    /\ agg = [w \in ReqIds |-> IF w = 1 THEN [NoAgg EXCEPT !.st = "ready", !.path = p]
                               ELSE NoAgg]
    /\ current_worker_id = 1
    /\ worker = 1
    /\ thread = 1
    /\ selected = p
    /\ showing_file_info = FALSE
    /\ chart = NoChart
    /\ progress_bar = [value |-> 0, visible |-> FALSE]

AggInterrupt ==
  /\ ~agg[1].intr
  /\ agg' = [agg EXCEPT ![1] = AggInterrupted(@)]
  /\ UNCHANGED <<mtodo, mq, closed, treeVars, current_worker_id, worker, thread, viewVars>>

WorkerNext ==
  \/ AggBegin(1)
  \/ AggListError(1)
  \/ AggCheck(1)
  \/ AggWalk(1)
  \/ AggProc(1)
  \/ AggChildError(1)
  \/ AggEnd(1)
  \/ AggInterrupt

SpecWorker == WorkerInit /\ [][WorkerNext]_vars

\* -------------------------------------------------------------------------
\* The aggregation side of the program: the folder was opened and its root
\* has been loaded (the state the program is in once the first load is over
\* and cleaned up); from there the user selects items and closes the window.
\* -------------------------------------------------------------------------
ChartInit ==
  /\ mtodo = <<>>
  /\ mq = <<>>
  /\ closed = FALSE
  /\ gen = 1
  /\ items = [p \in Names |->
                CASE p = "a" -> [exists |-> TRUE, loading |-> FALSE, loaded |-> TRUE,
                                 children |-> <<"b", "e", "f1">>]
                  [] p = "b" -> [NoItem EXCEPT !.exists = TRUE, !.children = <<"placeholder">>]
                  [] p = "e" -> [NoItem EXCEPT !.exists = TRUE]
                  [] p = "f1" -> [NoItem EXCEPT !.exists = TRUE]
                  [] OTHER -> NoItem]
  /\ active = <<>>
  /\ ld = [t \in LoadIds |->
             IF t = 1
             THEN [NoLoader EXCEPT !.st = "fin", !.key = Key(1, "a")]
             ELSE NoLoader]
  /\ nLoads = 1
  /\ agg = [w \in ReqIds |-> NoAgg]
  /\ current_worker_id = 0
  /\ worker = 0
  /\ thread = 0
  /\ selected = ""
  /\ showing_file_info = FALSE
  /\ chart = NoChart
  /\ progress_bar = [value |-> 0, visible |-> TRUE]

ChartNext ==
  \/ AggStep
  \/ CancelAgg
  \/ WaitAggDone
  \/ WaitAggTimeout
  \/ CleanupThreads
  \/ StartWorker
  \/ Closed
  \/ \E p \in Names : SelectDirectory(p)
  \/ \E p \in Names : SelectFile(p)
  \/ CloseEvent
  \/ OnProgress
  \/ OnWorkerFinished
  \/ OnWorkerError
  \/ OnFinishedQuit
  \/ ClearThreadWorkerRefs

SpecChart == ChartInit /\ [][ChartNext]_vars

\* -------------------------------------------------------------------------
\* The tree side of the program, from the start of the application: the user
\* opens the folder, expands and selects directories and closes the window.
\* The entries of a listed directory can all be read, and the directory an
\* aggregation is started for cannot be listed by it, which ends that run at
\* once with its error signal.
\* -------------------------------------------------------------------------
TreeNext ==
  \/ \E t \in LoadIds :
       \/ LdBegin(t)
       \/ LdOpen(t)
       \/ LdScanError(t)
       \/ LdScan(t)
       \/ LdEntry(t)
       \/ LdTail(t)
       \/ LdFinish(t)
       \/ LdExit(t)
  \/ \E w \in ReqIds :
       \/ AggListError(w)
       \/ AggExit(w)
  \/ HandlerStep
  \/ OpenFolder
  \/ \E p \in Names : OnItemExpanded(p)
  \/ \E p \in Names : SelectDirectory(p)
  \/ CloseEvent
  \/ OnItemsLoaded
  \/ OnLoadingFinished
  \/ OnFinishedCleanup
  \/ OnLoadingError
  \/ OnWorkerError
  \/ ClearThreadWorkerRefs

SpecTree == Init /\ [][TreeNext]_vars

\* =========================================================================
\* Properties of one DirectoryLoader run (SpecLoader).  Nothing consumes the
\* GUI thread's queue there and the signals stay connected: mq is the
\* sequence of the signals the run has emitted.
\* =========================================================================

\* The positions in mq of the completion and error signals.
FinalSignals == {n \in 1..Len(mq) : mq[n].k \in {"ldFinished", "ldError"}}

RunOver(t) == ld[t].st \in {"ret", "fin"}

IsLoaderSignal(ev) == ev.k \in {"items", "ldFinished", "ldError"}

\* C5: once interrupt() has been called on a DirectoryLoader, the run emits
\* no further items_loaded batch and no finished or error signal: no step
\* taken with the interrupt flag set emits a signal.
C5_NoSignalAfterInterrupt ==
  [][ld[1].intr => SelectSeq(mq', IsLoaderSignal) = SelectSeq(mq, IsLoaderSignal)]_vars

\* C7: a DirectoryLoader run emits finished or error at most once and never
\* both, no batch is emitted after it (it comes after every batch), and a run
\* that is over without having been interrupted, with its target item still
\* in the tree, has emitted exactly one of them.
C7_ExactlyOneFinal ==
  /\ Cardinality(FinalSignals) <= 1
  /\ \A n \in FinalSignals : \A m \in 1..Len(mq) : mq[m].k = "items" => m < n
  /\ (RunOver(1) /\ ~ld[1].intr /\ Alive(ld[1].key)) => Cardinality(FinalSignals) = 1

\* C7, its case: an uninterrupted run over c that delivered two batches and
\* then the completion signal.
C7_Witness ==
  /\ RunOver(1)
  /\ ~ld[1].intr
  /\ Alive(ld[1].key)
  /\ Len(mq) = 4
  /\ mq[1].k = "items"
  /\ mq[2].k = "items"
  /\ mq[3].k = "ldFinished"

\* =========================================================================
\* Properties of one FolderSizeWorker run (SpecWorker); mq is the sequence of
\* the signals the run has emitted.
\* =========================================================================

IsWorkerSignal(ev) == ev.k \in {"progress", "aggFinished"}

\* C6: once a FolderSizeWorker has seen its flag set, at the check before an
\* immediate child or at a step of the subtree walk, it emits no finished and
\* no further progress signal: no step taken after the run has seen the flag
\* emits a signal.
C6_SilentAfterObserved ==
  [][agg[1].obs => SelectSeq(mq', IsWorkerSignal) = SelectSeq(mq, IsWorkerSignal)]_vars

\* =========================================================================
\* Properties of the aggregation side (SpecChart)
\* =========================================================================

\* The worker of request w has been started and has not returned from
\* process().
Executing(w) == agg[w].st \in {"ready", "chk", "walk", "proc", "end"}

InQueue(k, t) == \E n \in 1..Len(mq) : mq[n].k = k /\ mq[n].t = t

\* C1: a new FolderSizeWorker is not started before the previous worker has
\* returned from process(): at most one aggregation worker is executing.
C1_OneAggregatorExecuting == Cardinality({w \in ReqIds : Executing(w)}) <= 1

\* C3: the chart takes a final mapping only from the request whose id is
\* current_worker_id: whenever a step puts a mapping into the chart, it is the
\* mapping of the most recently issued request.
C3_OnlyCurrentResultApplied ==
  [][((chart'.from # chart.from \/ chart'.data # chart.data) /\ chart'.from # 0)
       => chart'.from = current_worker_id']_vars

\* C3, its case: the final mapping of request 1 is still queued for delivery
\* when request 2 has been started, and the chart comes to show request 2.
C3_Witness ==
  /\ current_worker_id = 2
  /\ agg[2].st # "none"
  /\ InQueue("aggFinished", 1)

\* C4: request N was cancelled while running (its run saw the flag and
\* returned), request N+1 was started and no later request was issued: when
\* the final mapping of N+1 is handled, the chart is updated with it.
C4_LatestResultApplied ==
  [][\A w \in ReqIds \ {1} :
       (/\ Handling("aggFinished")
        /\ Head(mq).t = w
        /\ w = current_worker_id
        /\ agg[w - 1].obs
        /\ mq' = Tail(mq))
       => chart'.from = w]_vars

\* =========================================================================
\* Properties of the tree side (SpecTree)
\* =========================================================================

\* The loader t has been started and has not returned from load_directory.
LdExecuting(t) == ld[t].st \in {"ready", "open", "scan", "entry", "tail", "finish"}

\* C2: for one tree item at most one DirectoryLoader is executing and at most
\* one is tracked in the registry, and no step starts a loader for an item
\* whose load is running.
C2_OneLoaderPerNode ==
  /\ [](/\ \A t1, t2 \in LoadIds :
             (t1 # t2 /\ LdExecuting(t1) /\ LdExecuting(t2)) => ld[t1].key # ld[t2].key
        /\ \A m, n \in 1..Len(active) : m # n => active[m].key # active[n].key)
  /\ [][\A p \in Names :
          (items[p].loading /\ gen' = gen /\ nLoads' # nLoads)
            => ld'[nLoads'].key # Key(gen, p)]_vars

\* C2, its case: the load of an item is running, tracked, and the user is free
\* to expand the item again.
C2_Witness ==
  /\ Idle
  /\ \E t \in LoadIds :
       /\ LdExecuting(t)
       /\ Alive(ld[t].key)
       /\ Tracked(ld[t].key)
       /\ items[ld[t].key.p].loading

\* C8: a load that was cancelled leaves its item ready for a new load: when
\* no handler runs, a directory item that is not loaded and has no loader in
\* the registry is not Loading, so that expanding it starts a loader.
C8_CancelledReturnsToIdle ==
  Idle => \A p \in Names :
            (items[p].exists /\ IsDir(p) /\ ~items[p].loaded /\ ~Tracked(Key(gen, p)))
              => MayExpand(p)

\* The run of loader t returned without having been interrupted and what it
\* emitted has been handled.  A run that completed is interrupted by the
\* clean-up its finished signal brings, so such a run ended with the error
\* signal.
ErrorHandled(t) ==
  /\ Idle
  /\ ld[t].st = "ret"
  /\ ~ld[t].intr
  /\ Alive(ld[t].key)
  /\ \A n \in 1..Len(mq) : mq[n].t # t \/ mq[n].k \notin {"items", "ldFinished", "ldCleanup", "ldError"}

\* C9: after a DirectoryLoader has reported an error for an item, the registry
\* no longer tracks the item, the item is no longer Loading, and a re-expand
\* starts a new load.
C9_ErrorReleasesTask ==
  \A t \in LoadIds :
    ErrorHandled(t) => /\ ~Tracked(ld[t].key)
                       /\ ~items[ld[t].key.p].loading
                       /\ MayExpand(ld[t].key.p)

\* _cleanup_threads has just returned: the handler is at the step that
\* follows it in open_folder (the tree is cleared), in populate (the new root
\* is created and loaded), in start_folder_size_worker (the new worker) or in
\* closeEvent.
CleanupThreadsReturned ==
  Doing("clear") \/ Doing("newRoot") \/ Doing("startAgg") \/ Doing("closed")

\* C10: when the cancel-all of the loader registry returns, the registry is
\* empty and no DirectoryLoader is executing; in populate this is so before
\* the new root's loader is started.
C10_CancelAllComplete ==
  CleanupThreadsReturned => /\ active = <<>>
                            /\ \A t \in LoadIds : ~LdExecuting(t)

\* C10, its case: the folder is opened again while the first root's loader
\* had delivered a batch that is still queued and had not completed; the
\* cancel-all is over and the new root is about to be loaded.
C10_Witness ==
  /\ Doing("newRoot")
  /\ gen = 2
  /\ ld[1].st = "fin"
  /\ InQueue("items", 1)
  /\ ~InQueue("ldFinished", 1)
  /\ ~InQueue("ldError", 1)

\* C11: a cancel-and-wait returns to its caller whatever the cancelled worker
\* does: whenever the GUI thread is in the wait of _cleanup_thread or in the
\* wait of _cancel_previous_operations, the wait is able to return, without a
\* step of the worker being needed first.
C11_WaitsReturn ==
  /\ Doing("waitLd") => ENABLED WaitLoader
  /\ Doing("waitAgg") => ENABLED (WaitAggDone \/ WaitAggTimeout)

\* =========================================================================
\* Properties of the batches of one DirectoryLoader run (SpecLoader)
\* =========================================================================

IsItems(ev) == ev.k = "items"

\* The batches the run has delivered, in delivery order, and their
\* concatenation.
Batches == LET evs == SelectSeq(mq, IsItems) IN [n \in 1..Len(evs) |-> evs[n].d]

RECURSIVE Concat(_)
Concat(bs) == IF bs = <<>> THEN <<>> ELSE Head(bs) \o Concat(Tail(bs))

Delivered == Concat(Batches)

Occurrences(e, s) == Cardinality({n \in 1..Len(s) : s[n] = e})

\* The run is over and has emitted the completion signal.
Completed(t) == RunOver(t) /\ InQueue("ldFinished", t)

\* C12: the batches of a run that completes partition the entries the run
\* scanned: each scanned entry is in exactly one batch, nothing else is in a
\* batch, no batch is empty or longer than batch_size, and every batch but the
\* last holds exactly batch_size entries.
C12_BatchesPartition ==
  Completed(1) =>
    /\ \A e \in Names :
         /\ Occurrences(e, ld[1].seen) <= 1
         /\ Occurrences(e, Delivered) = Occurrences(e, ld[1].seen)
    /\ \A k \in 1..Len(Batches) :
         /\ Len(Batches[k]) \in 1..BatchSize
         /\ k < Len(Batches) => Len(Batches[k]) = BatchSize

\* C12, its case: the run over c has completed with a full batch followed by
\* a smaller last batch.
C12_Witness ==
  /\ Completed(1)
  /\ ld[1].key.p = "c"
  /\ Len(Batches) = 2
  /\ Len(Batches[1]) = BatchSize
  /\ Len(Batches[2]) < BatchSize

\* C13: the concatenation of the batches a run has delivered is ordered
\* directories before files and then by lowercased name.
C13_DeliveredOrdered ==
  \A m, n \in 1..Len(Delivered) : m < n => ~LoaderLess(Delivered[n], Delivered[m])

\* C14: a run never delivers more than max_items entries; an uninterrupted run
\* whose listing did not fail and whose item is alive ends with everything it
\* appended delivered, the partial batch included, and with the completion
\* signal, also when the cap has cut the scan short.
C14_CapRespected ==
  /\ Len(Delivered) <= MaxItems
  /\ Len(ld[1].seen) <= MaxItems
  /\ (RunOver(1) /\ ~ld[1].intr /\ Alive(ld[1].key) /\ ~InQueue("ldError", 1))
       => /\ Len(Delivered) = Len(ld[1].seen)
          /\ InQueue("ldFinished", 1)

\* C14, its case: c holds more entries than the cap; the run has stopped at
\* the cap, delivered the partial batch and completed.
C14_Witness ==
  /\ Completed(1)
  /\ Len(Listing(ld[1].key.p)) > MaxItems
  /\ ld[1].skipped = <<>>
  /\ Len(Delivered) = MaxItems
  /\ Len(Batches[Len(Batches)]) < BatchSize

InSeq(e, s) == \E n \in 1..Len(s) : s[n] = e

\* C20: a failure on one entry skips that entry only: an uninterrupted run
\* whose listing did not fail and whose item is alive ends with the
\* completion signal and no error signal, and, unless the cap has cut the scan
\* short, has delivered every entry of the directory it did not skip.
C20_EntryFailureSkipsOne ==
  (RunOver(1) /\ ~ld[1].intr /\ Alive(ld[1].key) /\ ~InQueue("ldError", 1))
    => /\ InQueue("ldFinished", 1)
       /\ Len(ld[1].seen) < MaxItems =>
            \A n \in 1..Len(Listing(ld[1].key.p)) :
              LET e == Listing(ld[1].key.p)[n]
              IN InSeq(e, ld[1].skipped) \/ InSeq(e, Delivered)

\* C20, its case: the run over c could not read F3, its second entry, while
\* f1 was buffered; it has completed and delivered f1 and the entries after
\* F3.
C20_Witness ==
  /\ Completed(1)
  /\ ld[1].key.p = "c"
  /\ ld[1].skipped = <<"F3">>
  /\ InSeq("f1", Delivered)
  /\ InSeq("f2", Delivered)
  /\ InSeq("d", Delivered)

\* =========================================================================
\* Properties of the signals of one FolderSizeWorker run (SpecWorker).
\* Nothing consumes the GUI thread's queue there: mq is the sequence of the
\* signals the run has emitted.
\* =========================================================================

IsProgress(ev) == ev.k = "progress"

IsFinalAgg(ev) == ev.k \in {"aggFinished", "aggError"}

\* The progress values the run has emitted, in order.
ProgressValues == LET evs == SelectSeq(mq, IsProgress) IN [n \in 1..Len(evs) |-> evs[n].d]

\* C15: every mapping emitted by finished holds strictly positive sizes only:
\* a child whose size came out as 0 is not among its keys.
C15_OnlyPositiveSizes ==
  \A n \in 1..Len(mq) :
    mq[n].k = "aggFinished" => \A name \in DOMAIN mq[n].d : mq[n].d[name] > 0

\* C15, its case: the run over c has emitted its mapping: the empty file F3
\* is not a key of it, f1 is.
C15_Witness ==
  /\ agg[1].path = "c"
  /\ ~agg[1].intr
  /\ \E n \in 1..Len(mq) :
       /\ mq[n].k = "aggFinished"
       /\ "f1" \in DOMAIN mq[n].d
       /\ "F3" \notin DOMAIN mq[n].d
       /\ "d" \in DOMAIN mq[n].d

\* C16: the progress values of a run never decrease and none exceeds 100.
C16_ProgressMonotone ==
  /\ \A n \in 1..Len(ProgressValues) : ProgressValues[n] <= 100
  /\ \A m, n \in 1..Len(ProgressValues) : m < n => ProgressValues[m] <= ProgressValues[n]

\* C16, its case: the run over c has emitted 25, 50, 75 and 100 and then its
\* mapping.
C16_Witness ==
  /\ agg[1].path = "c"
  /\ ProgressValues = <<25, 50, 75, 100>>
  /\ InQueue("aggFinished", 1)

\* C17: a run that is never cancelled emits at most one of finished / error,
\* and exactly one once it is over.
C17_ExactlyOneOutcome ==
  ~agg[1].intr =>
    /\ Len(SelectSeq(mq, IsFinalAgg)) <= 1
    /\ agg[1].st = "ret" => Len(SelectSeq(mq, IsFinalAgg)) = 1

\* C17, its case: listing the directory failed: the run is over with the
\* error signal and no mapping.
C17_Witness ==
  /\ agg[1].st = "ret"
  /\ ~agg[1].intr
  /\ InQueue("aggError", 1)
  /\ ~InQueue("aggFinished", 1)

\* =========================================================================
\* The aggregation of an empty directory and its consumer (SpecChart)
\* =========================================================================

\* The worker of request w is past the listing of its directory.
Listed(w) == agg[w].st \in {"chk", "walk", "proc", "end"}

\* C18: the worker of an empty directory, once the directory is listed, emits
\* nothing but finished, with an empty mapping (no progress, no error); and
\* when on_worker_finished applies an empty mapping the chart shows the
\* empty-folder title with no data, not the error title.
C18_EmptyDirectory ==
  [][/\ \A w \in ReqIds :
          (Listing(agg[w].path) = <<>> /\ agg[w].st = "ready" /\ agg'[w].st = "end")
            => mq' = mq
     /\ \A w \in ReqIds :
          (Listing(agg[w].path) = <<>> /\ Listed(w))
            => /\ agg[w].st = "end"
               /\ agg'[w].st # agg[w].st
                    => mq' = mq \o <<Ev("aggFinished", w, EmptyMap), Ev("quit", w, 0)>>
     /\ (Handling("aggFinished") /\ mq' = Tail(mq) /\ Head(mq).d = EmptyMap /\ chart' # chart)
          => /\ chart'.title = "empty_folder"
             /\ chart'.data = EmptyMap
             /\ chart'.from = Head(mq).t]_vars

\* C18, its case: the empty directory e was selected, its worker has emitted
\* its mapping, and the chart has taken it.
C18_Witness ==
  /\ selected = "e"
  /\ chart.from = current_worker_id
  /\ chart.from # 0
  /\ chart.title = "empty_folder"
  /\ chart.data = EmptyMap
  /\ ~agg[chart.from].intr

\* =========================================================================
\* The children of a tree item (SpecTree)
\* =========================================================================

\* C19: once an item is Loaded, its children are exactly the entries its
\* DirectoryLoader delivered for it (in SpecTree no entry fails and no
\* directory exceeds the cap: the entries of its listing), nothing else.
C19_ChildrenAreDelivered ==
  \A p \in Names :
    items[p].loaded =>
      /\ \A n \in 1..Len(items[p].children) : InSeq(items[p].children[n], Listing(p))
      /\ \A n \in 1..Len(Listing(p)) : InSeq(Listing(p)[n], items[p].children)

\* =========================================================================
\* An entry whose creation time cannot be captured (SpecLoader)
\* =========================================================================

\* C21: an entry whose kind and size were obtained and whose creation time
\* could not be captured is still delivered in a batch: an uninterrupted run
\* that is over, with no listing failure, its item alive and the cap not
\* reached, has delivered every such entry.
C21_EntryWithoutStampDelivered ==
  (/\ RunOver(1)
   /\ ~ld[1].intr
   /\ Alive(ld[1].key)
   /\ ~InQueue("ldError", 1)
   /\ Len(ld[1].seen) < MaxItems)
    => \A n \in 1..Len(ld[1].nostamp) : InSeq(ld[1].nostamp[n], Delivered)

\* =========================================================================
\* What a selection change cancels (SpecTree)
\* =========================================================================

\* The GUI thread is inside the handler of a selection change: what it still
\* has to do ends with the start of the new aggregation.
InSelectionChange == mtodo # <<>> /\ mtodo[Len(mtodo)].op = "startAgg"

\* C22: a selection change cancels the previous aggregation only: no step of
\* its handler changes the loader registry or sets the cancel flag of a
\* directory loader.
C22_SelectionKeepsLoaders ==
  [][InSelectionChange =>
       /\ active' = active
       /\ \A t \in LoadIds : ld'[t].intr => ld[t].intr]_<<active, ld>>

\* =========================================================================
\* Progress and error signals of a superseded aggregation (SpecChart)
\* =========================================================================

\* The GUI thread consumes a progress or an error signal of an aggregation
\* whose request id is not the current one.
StaleSignalConsumed ==
  /\ Idle
  /\ mq # <<>>
  /\ Head(mq).k \in {"progress", "aggError"}
  /\ Head(mq).t # current_worker_id
  /\ mq' = Tail(mq)

\* C23: a progress or an error signal of an aggregation that is not the
\* most recently requested one changes neither the chart (title and data) nor
\* the progress display.
C23_StaleSignalsIgnored ==
  [][StaleSignalConsumed => chart' = chart /\ progress_bar' = progress_bar]_<<chart, progress_bar>>

\* =========================================================================
\* The mapping and the progress of one FolderSizeWorker run (SpecWorker)
\* =========================================================================

RECURSIVE SumSeq(_)
SumSeq(s) == IF s = <<>> THEN 0 ELSE Head(s) + SumSeq(Tail(s))

\* What get_folder_size returns for a subdirectory when nothing interrupts it:
\* the sum of the sizes of the files os.walk finds under it.
RecursiveSum(e) == SumSeq(WalkSums(e))

\* C24: a mapping emitted by finished is complete but for unreadable files:
\* every subdirectory among the immediate children whose recursive sum is
\* positive is a key of it with that sum, and a file that is a key of it has
\* its own size.
C24_FinishedMappingComplete ==
  \A n \in 1..Len(mq) :
    mq[n].k = "aggFinished" =>
      \A m \in 1..Len(Listing(agg[1].path)) :
        LET e == Listing(agg[1].path)[m]
        IN IF IsDir(e)
           THEN RecursiveSum(e) > 0 =>
                  (e \in DOMAIN mq[n].d /\ mq[n].d[e] = RecursiveSum(e))
           ELSE e \in DOMAIN mq[n].d => mq[n].d[e] = FileSize(e)

\* C25: a run that was never cancelled and has emitted its mapping for a
\* directory with n >= 1 immediate children has emitted n progress values,
\* the last of them 100.
C25_ProgressPerChild ==
  (/\ ~agg[1].intr
   /\ InQueue("aggFinished", 1)
   /\ Listing(agg[1].path) # <<>>)
    => /\ Len(ProgressValues) = Len(Listing(agg[1].path))
       /\ ProgressValues[Len(ProgressValues)] = 100

\* =========================================================================
\* The references to the running aggregation (SpecChart)
\* =========================================================================

\* C26: between two handlers of the GUI thread, while the worker of the most
\* recent request is executing, MainWindow.worker and MainWindow.thread refer
\* to it: the queued clear_thread_worker_refs of an older thread does not
\* clear them.
C26_RefsFollowNewestWorker ==
  (/\ Idle
   /\ current_worker_id \in ReqIds
   /\ Executing(current_worker_id))
    => worker = current_worker_id /\ thread = current_worker_id

====
